---- MODULE Spec2Model ----
(***************************************************************************)
(* Rent It API: the document store adapter (backend/database.py), the      *)
(* resource schemas (schemas.py) and the HTTP routes (main.py).            *)
(*                                                                         *)
(* A Python mapping is a function from field names to values.  An          *)
(* Optional value is None (the empty tuple) or Some(v) (a one-tuple).      *)
(* A collection is the sequence of its documents in the store's natural    *)
(* order.  Timestamps are read from a clock counted in BSON's millisecond  *)
(* resolution.                                                             *)
(***************************************************************************)
EXTENDS Integers, Sequences, FiniteSets, TLC

VARIABLES
    env,      \* DATABASE_URL / DATABASE_NAME as the process found them
    store,    \* collection name -> sequence of stored documents
    clock,    \* the UTC clock; it has moved on whenever a store write returns
    oids,     \* number of ObjectIds generated so far
    req,      \* the last call or HTTP request, with its arguments
    resp,     \* what that call returned or raised
    posted,   \* history: the records the successful POSTs answered with
    last      \* history: the request before this one and its response

vars == <<env, store, clock, oids, req, resp, posted, last>>

(***************************************************************************)
(* Bounds of the model.                                                    *)
(***************************************************************************)
MaxDocs == 2      \* documents in the store
MaxClock == 3     \* readings of the clock
MaxLimit == 2     \* largest limit passed to get_documents

(***************************************************************************)
(* Python values.                                                          *)
(***************************************************************************)
None == <<>>
Some(v) == <<v>>
EmptyDict == [f \in {} |-> 0]

\* Python truthiness of an Optional[str]: None and "" are falsy.
Truthy(o) == o # None /\ o[1] # ""

\* {**d, **u}: u's keys win.
Merge(d, u) == [f \in DOMAIN d \cup DOMAIN u |-> IF f \in DOMAIN u THEN u[f] ELSE d[f]]

\* d without the keys in ks (dict.pop).
Without(d, ks) == [f \in DOMAIN d \ ks |-> d[f]]

Min(a, b) == IF a < b THEN a ELSE b

ObjectId(n) == <<"ObjectId", n>>

\* str(ObjectId): the hexadecimal text of the identifier.
OidStr(oid) == "oid-" \o ToString(oid[2])

Collections ==
    {"user", "listing", "booking", "message", "review", "savedsearch",
     "verificationrequest"}

EmptyStore == [c \in Collections |-> <<>>]

TotalDocs(s) ==
    Len(s["user"]) + Len(s["listing"]) + Len(s["booking"]) + Len(s["message"])
    + Len(s["review"]) + Len(s["savedsearch"]) + Len(s["verificationrequest"])

(***************************************************************************)
(* backend/database.py: the store handle.                                  *)
(***************************************************************************)
\* Lines 18-26: db stays None unless both settings are truthy; nothing is
\* raised at import time.
db ==
    IF Truthy(env.database_url) /\ Truthy(env.database_name)
    THEN Some(env.database_name[1])
    ELSE None

UNAVAILABLE == "Database not available"

(***************************************************************************)
(* The document store behind pymongo.                                      *)
(***************************************************************************)
\* Fields whose validated value is a pydantic Url object, a list of them,
\* a datetime.date, or a list of those (schemas.py).
UrlFields == {"avatar_url", "video_url"}
UrlListFields == {"photos", "document_urls"}
DateFields == {"start_date", "end_date"}
DateListFields == {"availability_dates"}

\* insert_one encodes the mapping to BSON.  BSON has no encoding for a
\* pydantic Url nor for a datetime.date (only datetime.datetime): a mapping
\* that holds one raises InvalidDocument.  None and the empty list encode.
BsonEncodable(d) ==
    \A f \in DOMAIN d :
        /\ f \in UrlFields => d[f] = None
        /\ f \in UrlListFields => d[f] = <<>>
        /\ f \in DateFields => FALSE
        /\ f \in DateListFields => d[f] = <<>>

\* A filter is [eq, range, or]: eq maps fields to the value they must equal,
\* range maps fields to a mapping with optional keys "gte" and "lte", and
\* or is the list of alternatives of "$or" (empty: the key is absent).
EqMatches(d, eq) == \A f \in DOMAIN eq : f \in DOMAIN d /\ d[f] = eq[f]

RangeMatches(d, range) ==
    \A f \in DOMAIN range :
        /\ f \in DOMAIN d
        /\ "gte" \in DOMAIN range[f] => d[f] >= range[f]["gte"]
        /\ "lte" \in DOMAIN range[f] => d[f] <= range[f]["lte"]

Matches(d, filt) ==
    /\ EqMatches(d, filt.eq)
    /\ RangeMatches(d, filt.range)
    /\ filt.or # <<>> => \E i \in 1..Len(filt.or) : EqMatches(d, filt.or[i])

NoFilter == [eq |-> EmptyDict, range |-> EmptyDict, or |-> <<>>]
EqFilter(eq) == [eq |-> eq, range |-> EmptyDict, or |-> <<>>]

\* collection.find(filter): the matching documents in natural order.
Find(docs, filt) == SelectSeq(docs, LAMBDA d : Matches(d, filt))

\* Index of the first document matching the filter, 0 when none does.
FirstMatch(docs, filt) ==
    IF \E i \in 1..Len(docs) : Matches(docs[i], filt)
    THEN CHOOSE i \in 1..Len(docs) :
            /\ Matches(docs[i], filt)
            /\ \A j \in 1..(i - 1) : ~Matches(docs[j], filt)
    ELSE 0

\* cursor.limit(n): 0 means no limit.
CursorLimit(docs, n) == IF n = 0 THEN docs ELSE SubSeq(docs, 1, Min(n, Len(docs)))

(***************************************************************************)
(* backend/database.py: the helper functions.  Each takes the adapter's    *)
(* state st = [store, clock, oids] and answers                             *)
(*   [st: the state after, raised: None or Some(error), ret: the value     *)
(*    returned, calls: store calls made, arg: the caller's mapping after]. *)
(***************************************************************************)
Raise(st, err, calls, arg) ==
    [st |-> st, raised |-> Some(err), ret |-> None, calls |-> calls, arg |-> arg]

Return(st, ret, calls, arg) ==
    [st |-> st, raised |-> None, ret |-> ret, calls |-> calls, arg |-> arg]

_ensure_db == db # None

create_document(st, collection_name, data) ==
    IF ~_ensure_db THEN Raise(st, UNAVAILABLE, 0, data)
    ELSE
        LET data_dict == data    \* model_dump() / data.copy(): a new mapping
            now == st.clock
            stamped == Merge(data_dict, [created_at |-> now, updated_at |-> now])
            ticked == [st EXCEPT !.clock = now + 1]
        IN  IF ~BsonEncodable(stamped)
            THEN Raise(st, "InvalidDocument", 1, data)
            ELSE
                LET oid == ObjectId(st.oids + 1)
                    doc == Merge(stamped, [_id |-> oid])
                IN  Return([ticked EXCEPT
                                !.store[collection_name] = Append(@, doc),
                                !.oids = @ + 1],
                           OidStr(oid), 1, data)

get_documents_nolimit(st, collection_name, filter_dict, limit) ==
    IF ~_ensure_db THEN Raise(st, UNAVAILABLE, 0, None)
    ELSE
        LET filt == IF filter_dict = None THEN NoFilter ELSE filter_dict[1]
        IN  Return(st, Find(st.store[collection_name], filt), 1, None)

get_documents_first(st, collection_name, filter_dict, limit) ==
    IF ~_ensure_db THEN Raise(st, UNAVAILABLE, 0, None)
    ELSE
        LET filt == IF filter_dict = None THEN NoFilter ELSE filter_dict[1]
            cursor == Find(st.store[collection_name], filt)
        IN  Return(st, SubSeq(cursor, 1, Min(1, Len(cursor))), 1, None)

get_documents_unchecked(st, collection_name, filter_dict, limit) ==
    IF db = None THEN Raise(st, "TypeError", 0, None)
    ELSE
        LET filt == IF filter_dict = None THEN NoFilter ELSE filter_dict[1]
            cursor == Find(st.store[collection_name], filt)
        IN  Return(st,
                   IF limit # None /\ limit[1] # 0 THEN CursorLimit(cursor, limit[1])
                   ELSE cursor,
                   1, None)

get_documents(st, collection_name, filter_dict, limit) ==
    IF ~_ensure_db THEN Raise(st, UNAVAILABLE, 0, None)
    ELSE
        LET filt == IF filter_dict = None THEN NoFilter ELSE filter_dict[1]
            cursor == Find(st.store[collection_name], filt)
        IN  Return(st,
                   IF limit # None /\ limit[1] # 0 THEN CursorLimit(cursor, limit[1])
                   ELSE cursor,
                   1, None)

get_document(st, collection_name, filter_dict) ==
    IF ~_ensure_db THEN Raise(st, UNAVAILABLE, 0, None)
    ELSE
        LET filt == IF filter_dict = None THEN NoFilter ELSE filter_dict[1]
            docs == st.store[collection_name]
            i == FirstMatch(docs, filt)
        IN  Return(st, IF i = 0 THEN None ELSE Some(docs[i]), 1, None)

\* update_one(filter, {"$set": fields}, upsert): the first match gets the
\* fields set; with upsert and no match a document made of the filter's
\* equality fields and the $set fields is inserted under a fresh _id.
UpdateOne(st, collection_name, filt, fields, upsert) ==
    LET docs == st.store[collection_name]
        i == FirstMatch(docs, filt)
    IN  IF i # 0
        THEN LET new == Merge(docs[i], fields)
             IN  [st |-> [st EXCEPT !.store[collection_name][i] = new],
                  matched_count |-> 1,
                  modified_count |-> IF new = docs[i] THEN 0 ELSE 1,
                  upserted_id |-> None]
        ELSE IF upsert
        THEN LET oid == ObjectId(st.oids + 1)
                 new == Merge(Merge(filt.eq, fields), [_id |-> oid])
             IN  [st |-> [st EXCEPT !.store[collection_name] = Append(@, new),
                                    !.oids = @ + 1],
                  matched_count |-> 0,
                  modified_count |-> 0,
                  upserted_id |-> Some(oid)]
        ELSE [st |-> st, matched_count |-> 0, modified_count |-> 0,
              upserted_id |-> None]

update_document_all(st, collection_name, filter_dict, update_dict, upsert) ==
    IF ~_ensure_db THEN Raise(st, UNAVAILABLE, 0, update_dict)
    ELSE
        LET filt == IF filter_dict = None THEN NoFilter ELSE filter_dict[1]
            now == st.clock
            fields == Merge(update_dict, [updated_at |-> now])
            docs == st.store[collection_name]
            n == Len(SelectSeq(docs, LAMBDA d : Matches(d, filt)))
        IN  Return([st EXCEPT !.clock = now + 1,
                              !.store[collection_name] =
                                  [i \in 1..Len(docs) |->
                                      IF Matches(docs[i], filt)
                                      THEN Merge(docs[i], fields) ELSE docs[i]]],
                   [matched |-> n, modified |-> n, upserted_id |-> None],
                   1, update_dict)

update_document(st, collection_name, filter_dict, update_dict, upsert) ==
    IF ~_ensure_db THEN Raise(st, UNAVAILABLE, 0, update_dict)
    ELSE
        LET filt == IF filter_dict = None THEN NoFilter ELSE filter_dict[1]
            now == st.clock
            fields == Merge(update_dict, [updated_at |-> now])
            result == UpdateOne([st EXCEPT !.clock = now + 1],
                                collection_name, filt, fields, upsert)
        IN  Return(result.st,
                   [matched |-> result.matched_count,
                    modified |-> result.modified_count,
                    upserted_id |-> IF result.upserted_id # None
                                    THEN Some(OidStr(result.upserted_id[1]))
                                    ELSE None],
                   1, update_dict)

(***************************************************************************)
(* schemas.py: the resource schemas.  A request body is a mapping from     *)
(* JSON keys to values.  The text of an e-mail address is the tuple of its *)
(* parts around "@", the text of a URL is [scheme, host], the text of a    *)
(* date is <<year, month, day>>; numbers are integers.                     *)
(***************************************************************************)
RoleType == {"landlord", "tenant"}
RoomType == {"private_room", "shared_room", "entire_flat"}
PriceUnit == {"night", "week", "month"}
BookingStatus == {"requested", "accepted", "declined", "cancelled", "completed"}
VerificationType == {"id", "property_ownership"}
VerificationStatus == {"pending", "approved", "rejected"}

\* EmailStr: one "@" with text on both sides.
IsEmail(t) == Len(t) = 2 /\ t[1] # "" /\ t[2] # ""

\* HttpUrl: an http or https URL with a host.
IsHttpUrl(t) == t.scheme \in {"http", "https"} /\ t.host # ""

\* date: a calendar date.
IsDate(t) == t[2] \in 1..12 /\ t[3] \in 1..31

\* The objects validation builds from the texts.
Url(t) == [url |-> t]
Date(t) == [date |-> t]

Required(c) ==
    CASE c = "user" -> {"name", "email", "role"}
      [] c = "listing" -> {"landlord_id", "title", "description", "room_type",
                           "price", "price_unit", "location"}
      [] c = "booking" -> {"listing_id", "tenant_id", "start_date", "end_date"}
      [] c = "message" -> {"listing_id", "sender_id", "receiver_id", "content"}
      [] c = "review" -> {"booking_id", "reviewer_id", "reviewee_id", "rating"}
      [] c = "savedsearch" -> {"tenant_id", "name", "query"}
      [] c = "verificationrequest" -> {"user_id", "type", "document_urls"}

Defaults(c) ==
    CASE c = "user" -> [avatar_url |-> None, phone |-> None, bio |-> None,
                        verified |-> FALSE, supabase_user_id |-> None]
      [] c = "listing" -> [photos |-> <<>>, video_url |-> None, amenities |-> <<>>,
                           house_rules |-> <<>>, available_now |-> FALSE,
                           availability_dates |-> <<>>]
      [] c = "booking" -> [status |-> "requested", instant |-> FALSE,
                           payment_reference |-> None]
      [] c = "message" -> [read |-> FALSE]
      [] c = "review" -> [comment |-> None]
      [] c = "savedsearch" -> [alerts_enabled |-> TRUE]
      [] c = "verificationrequest" -> [status |-> "pending"]

Fields(c) == Required(c) \cup DOMAIN Defaults(c)

\* Location: lat and lng are required and range-checked.
LocationDefaults ==
    [address |-> None, city |-> None, state |-> None, country |-> None]

LocationValid(v) ==
    /\ {"lat", "lng"} \subseteq DOMAIN v
    /\ v.lat >= -90 /\ v.lat <= 90
    /\ v.lng >= -180 /\ v.lng <= 180

\* The declared constraint of one field.
FieldValid(c, f, v) ==
    CASE f = "email" -> IsEmail(v)
      [] f = "role" -> v \in RoleType
      [] f \in UrlFields -> v = None \/ IsHttpUrl(v[1])
      [] f = "photos" -> \A i \in 1..Len(v) : IsHttpUrl(v[i])
      [] f = "document_urls" -> Len(v) >= 1 /\ \A i \in 1..Len(v) : IsHttpUrl(v[i])
      [] f = "room_type" -> v \in RoomType
      [] f = "price" -> v >= 0
      [] f = "price_unit" -> v \in PriceUnit
      [] f = "location" -> LocationValid(v)
      [] f \in DateFields -> IsDate(v)
      [] f = "availability_dates" -> \A i \in 1..Len(v) : IsDate(v[i])
      [] f = "status" -> IF c = "booking" THEN v \in BookingStatus
                         ELSE v \in VerificationStatus
      [] f = "rating" -> v >= 1 /\ v <= 5
      [] f = "type" -> v \in VerificationType
      [] OTHER -> TRUE

\* The value a valid field has in the model object.
Convert(f, v) ==
    CASE f \in UrlFields -> IF v = None THEN None ELSE Some(Url(v[1]))
      [] f \in UrlListFields -> [i \in 1..Len(v) |-> Url(v[i])]
      [] f \in DateFields -> Date(v)
      [] f \in DateListFields -> [i \in 1..Len(v) |-> Date(v[i])]
      [] f = "location" -> Merge(LocationDefaults, v)
      [] OTHER -> v

Validate_norange(c, body) ==
    /\ Required(c) \subseteq DOMAIN body
    /\ \A f \in (DOMAIN body \cap Fields(c)) \ {"price", "rating", "location"} :
            FieldValid(c, f, body[f])

\* Request validation: every required field is there and every declared
\* field that is there satisfies its constraint.
Validate(c, body) ==
    /\ Required(c) \subseteq DOMAIN body
    /\ \A f \in DOMAIN body \cap Fields(c) : FieldValid(c, f, body[f])

\* The model object of a valid body: declared fields only, defaults filled
\* in.  model_dump() answers this mapping.
Parse(c, body) ==
    [f \in Fields(c) |->
        IF f \in DOMAIN body THEN Convert(f, body[f]) ELSE Defaults(c)[f]]

(***************************************************************************)
(* The state the process starts in, and how a call is recorded.            *)
(***************************************************************************)
\* What os.getenv may answer for the two settings.
UrlSettings == {None, Some("mongodb://db")}
NameSettings == {None, Some(""), Some("rentit")}

NoCall == [op |-> "none"]

InitWith(urls, names) ==
    /\ env \in [database_url : urls, database_name : names]
    /\ store = EmptyStore
    /\ clock = 0
    /\ oids = 0
    /\ req = NoCall
    /\ resp = NoCall
    /\ posted = {}
    /\ last = [req |-> [op |-> "none"], resp |-> [op |-> "none"]]

State == [store |-> store, clock |-> clock, oids |-> oids]

\* The call ends: the adapter's state is written back.
Commit(st) ==
    /\ store' = st.store
    /\ clock' = st.clock
    /\ oids' = st.oids

Fits(st) == TotalDocs(st.store) <= MaxDocs /\ st.clock <= MaxClock

(***************************************************************************)
(* The adapter called directly, with raw mappings.                         *)
(***************************************************************************)
AdapterCollections == {"user"}
OtherCollections == {"listing"}
RawDocs == [name : {"ann", "bob"}, role : {"tenant"}]
AdapterFilters == {None} \cup {Some(EqFilter([name |-> n])) : n \in {"ann", "bob"}}
UpdateDicts == {[role |-> "landlord"], [created_at |-> 0], [updated_at |-> 0]}
AdapterLimits == {None, Some(1)}
Limits == {None} \cup {Some(n) : n \in 0..MaxLimit}

CreateDocument(c, data) ==
    LET r == create_document(State, c, data)
    IN  /\ Fits(r.st)
        /\ Commit(r.st)
        /\ req' = [op |-> "create_document", collection |-> c, data |-> data]
        /\ resp' = [op |-> "create_document", raised |-> r.raised, ret |-> r.ret,
                    calls |-> r.calls, arg |-> r.arg]
        /\ UNCHANGED <<env, posted, last>>

GetDocuments(c, f, limit) ==
    LET r == get_documents(State, c, f, limit)
    IN  /\ Commit(r.st)
        /\ req' = [op |-> "get_documents", collection |-> c, filter |-> f,
                   limit |-> limit]
        /\ resp' = [op |-> "get_documents", raised |-> r.raised, ret |-> r.ret,
                    calls |-> r.calls]
        /\ UNCHANGED <<env, posted, last>>

GetDocument(c, f) ==
    LET r == get_document(State, c, f)
    IN  /\ Commit(r.st)
        /\ req' = [op |-> "get_document", collection |-> c, filter |-> f]
        /\ resp' = [op |-> "get_document", raised |-> r.raised, ret |-> r.ret,
                    calls |-> r.calls]
        /\ UNCHANGED <<env, posted, last>>

UpdateDocument(c, f, u, upsert) ==
    LET r == update_document(State, c, f, u, upsert)
    IN  /\ Fits(r.st)
        /\ Commit(r.st)
        /\ req' = [op |-> "update_document", collection |-> c, filter |-> f,
                   update |-> u, upsert |-> upsert]
        /\ resp' = [op |-> "update_document", raised |-> r.raised, ret |-> r.ret,
                    calls |-> r.calls]
        /\ UNCHANGED <<env, posted, last>>

AdapterInit == InitWith(UrlSettings, NameSettings)

AdapterNext ==
    \/ \E c \in AdapterCollections, data \in RawDocs : CreateDocument(c, data)
    \/ \E c \in OtherCollections : CreateDocument(c, [name |-> "ann", role |-> "tenant"])
    \/ \E c \in AdapterCollections, f \in AdapterFilters, limit \in AdapterLimits :
            GetDocuments(c, f, limit)
    \/ \E c \in AdapterCollections, f \in AdapterFilters : GetDocument(c, f)
    \/ \E c \in AdapterCollections, f \in AdapterFilters, u \in UpdateDicts,
          upsert \in BOOLEAN :
            UpdateDocument(c, f, u, upsert)

SpecAdapter == AdapterInit /\ [][AdapterNext]_vars

\* The adapter with every limit, on a store that only grows.
LimitNext ==
    \/ \E c \in AdapterCollections, data \in RawDocs : CreateDocument(c, data)
    \/ \E c \in AdapterCollections, f \in AdapterFilters, limit \in Limits :
            GetDocuments(c, f, limit)

SpecLimit == AdapterInit /\ [][LimitNext]_vars

(***************************************************************************)
(* main.py: the routes.  A route's operator states everything but the      *)
(* history variable last, which the specification records.                 *)
(***************************************************************************)
\* d["id"] = str(d.pop("_id"))
WithId_keep(d) == Merge(d, [id |-> OidStr(d["_id"])])

WithId(d) == Merge(Without(d, {"_id"}), [id |-> OidStr(d["_id"])])

\* The equality filter of the query parameters that are truthy.
EqOf(params, fields) ==
    [f \in {g \in fields : Truthy(params[g])} |-> params[f][1]]

\* POST /<resource>: validate, create_document, answer the model's fields
\* and the new id.
Post(c, body) ==
    /\ req' = [op |-> "POST", collection |-> c, body |-> body]
    /\ UNCHANGED env
    /\ IF ~Validate(c, body)
       THEN /\ resp' = [op |-> "POST", status |-> 422, raised |-> None,
                        body |-> None, calls |-> 0]
            /\ UNCHANGED <<store, clock, oids, posted>>
       ELSE LET model == Parse(c, body)
                r == create_document(State, c, model)
            IN  /\ Fits(r.st)
                /\ Commit(r.st)
                /\ IF r.raised # None
                   THEN /\ resp' = [op |-> "POST", status |-> 500, raised |-> r.raised,
                                    body |-> None, calls |-> r.calls]
                        /\ UNCHANGED posted
                   ELSE /\ resp' = [op |-> "POST", status |-> 201, raised |-> None,
                                    body |-> Some(Merge([id |-> r.ret], model)),
                                    calls |-> r.calls]
                        /\ posted' = posted \cup
                                {[collection |-> c, id |-> r.ret, payload |-> body]}

create_user(user) == Post("user", user)
create_listing(listing) == Post("listing", listing)
request_booking(booking) == Post("booking", booking)
send_message(msg) == Post("message", msg)
create_review(review) == Post("review", review)
create_saved_search(payload) == Post("savedsearch", payload)
create_verification_request(r) == Post("verificationrequest", r)

\* GET /<resource>: get_documents with the route's filter, then every
\* record gets "id" in place of "_id".
List(route, c, params, filt) ==
    LET r == get_documents(State, c, Some(filt), None)
    IN  /\ Commit(r.st)
        /\ req' = [op |-> "GET", route |-> route, collection |-> c, params |-> params]
        /\ resp' = IF r.raised # None
                   THEN [op |-> "GET", status |-> 500, raised |-> r.raised,
                         body |-> <<>>, calls |-> r.calls]
                   ELSE [op |-> "GET", status |-> 200, raised |-> None,
                         body |-> [i \in 1..Len(r.ret) |-> WithId(r.ret[i])],
                         calls |-> r.calls]
        /\ UNCHANGED <<env, posted>>

\* A required query parameter is missing.
Unprocessable(route, c, params) ==
    /\ req' = [op |-> "GET", route |-> route, collection |-> c, params |-> params]
    /\ resp' = [op |-> "GET", status |-> 422, raised |-> None, body |-> <<>>,
                calls |-> 0]
    /\ UNCHANGED <<env, store, clock, oids, posted>>

list_users(role) ==
    List("list_users", "user", [role |-> role],
         IF Truthy(role) THEN EqFilter([role |-> role[1]]) ELSE NoFilter)

PriceRange(price_min, price_max) ==
    [k \in {g \in {"gte"} : price_min # None} \cup {g \in {"lte"} : price_max # None} |->
        IF k = "gte" THEN price_min[1] ELSE price_max[1]]

search_listings_truthy(lat, lng, radius_km, price_min, price_max, room_type, available_now) ==
    LET params == [lat |-> lat, lng |-> lng, radius_km |-> radius_km,
                   price_min |-> price_min, price_max |-> price_max,
                   room_type |-> room_type, available_now |-> available_now]
        min == IF price_min # None /\ price_min[1] # 0 THEN price_min ELSE None
        max == IF price_max # None /\ price_max[1] # 0 THEN price_max ELSE None
        range == IF min # None \/ max # None
                 THEN [price |-> PriceRange(min, max)]
                 ELSE EmptyDict
        eq == [f \in {g \in {"room_type"} : Truthy(room_type)}
                     \cup {g \in {"available_now"} : available_now # None /\ available_now[1]} |->
                    IF f = "room_type" THEN room_type[1] ELSE available_now[1]]
    IN  List("search_listings", "listing", params,
             [eq |-> eq, range |-> range, or |-> <<>>])

search_listings(lat, lng, radius_km, price_min, price_max, room_type, available_now) ==
    LET params == [lat |-> lat, lng |-> lng, radius_km |-> radius_km,
                   price_min |-> price_min, price_max |-> price_max,
                   room_type |-> room_type, available_now |-> available_now]
        range == IF price_min # None \/ price_max # None
                 THEN [price |-> PriceRange(price_min, price_max)]
                 ELSE EmptyDict
        eq == [f \in {g \in {"room_type"} : Truthy(room_type)}
                     \cup {g \in {"available_now"} : available_now # None} |->
                    IF f = "room_type" THEN room_type[1] ELSE available_now[1]]
    IN  List("search_listings", "listing", params,
             [eq |-> eq, range |-> range, or |-> <<>>])

list_bookings(tenant_id, landlord_id) ==
    LET params == [tenant_id |-> tenant_id, landlord_id |-> landlord_id]
    IN  List("list_bookings", "booking", params,
             EqFilter(EqOf(params, {"tenant_id", "landlord_id"})))

get_messages_and(listing_id, user_id) ==
    LET params == [listing_id |-> listing_id, user_id |-> user_id]
    IN  List("get_messages", "message", params,
             EqFilter(Merge(EqOf(params, {"listing_id"}),
                            IF Truthy(user_id)
                            THEN [sender_id |-> user_id[1], receiver_id |-> user_id[1]]
                            ELSE EmptyDict)))

get_messages(listing_id, user_id) ==
    LET params == [listing_id |-> listing_id, user_id |-> user_id]
    IN  List("get_messages", "message", params,
             [eq |-> EqOf(params, {"listing_id"}),
              range |-> EmptyDict,
              or |-> IF Truthy(user_id)
                     THEN <<[sender_id |-> user_id[1]], [receiver_id |-> user_id[1]]>>
                     ELSE <<>>])

list_reviews(reviewee_id) ==
    LET params == [reviewee_id |-> reviewee_id]
    IN  List("list_reviews", "review", params,
             IF Truthy(reviewee_id) THEN EqFilter([reviewee_id |-> reviewee_id[1]])
             ELSE NoFilter)

\* tenant_id is a required parameter; a supplied one filters, even if empty.
list_saved_searches(tenant_id) ==
    LET params == [tenant_id |-> tenant_id]
    IN  IF tenant_id = None
        THEN Unprocessable("list_saved_searches", "savedsearch", params)
        ELSE List("list_saved_searches", "savedsearch", params,
                  EqFilter([tenant_id |-> tenant_id[1]]))

list_verification_requests(user_id, status) ==
    LET params == [user_id |-> user_id, status |-> status]
    IN  List("list_verification_requests", "verificationrequest", params,
             EqFilter(EqOf(params, {"user_id", "status"})))

(***************************************************************************)
(* The HTTP API: the request bodies and query parameters tried.            *)
(***************************************************************************)
HttpsUrl == [scheme |-> "https", host |-> "cdn.io"]
FtpUrl == [scheme |-> "ftp", host |-> "cdn.io"]

UserBody == [name |-> "ann", email |-> <<"ann", "x.io">>, role |-> "tenant"]
UserBodies ==
    {UserBody,
     Merge(UserBody, [role |-> "landlord", is_admin |-> TRUE]),
     Merge(UserBody, [avatar_url |-> Some(HttpsUrl)]),
     Merge(UserBody, [avatar_url |-> Some(FtpUrl)]),
     Merge(UserBody, [role |-> "admin"]),
     Merge(UserBody, [email |-> <<"ann.x.io">>]),
     Without(UserBody, {"name"})}

ListingBody ==
    [landlord_id |-> "u1", title |-> "room", description |-> "sunny",
     room_type |-> "private_room", price |-> 50, price_unit |-> "month",
     location |-> [lat |-> 52, lng |-> 13]]
ListingBodies ==
    {ListingBody,
     Merge(ListingBody, [price |-> 0, available_now |-> TRUE, photos |-> <<>>]),
     Merge(ListingBody, [photos |-> <<HttpsUrl>>]),
     Merge(ListingBody, [availability_dates |-> <<(<<2025, 1, 10>>)>>]),
     Merge(ListingBody, [price |-> -1]),
     Merge(ListingBody, [room_type |-> "castle"]),
     Merge(ListingBody, [price_unit |-> "year"]),
     Merge(ListingBody, [location |-> [lat |-> 91, lng |-> 13]]),
     Merge(ListingBody, [location |-> [lat |-> 52, lng |-> -181]]),
     Merge(ListingBody, [location |-> [lat |-> 52]]),
     Without(ListingBody, {"price"})}

BookingBody ==
    [listing_id |-> "l1", tenant_id |-> "u1", start_date |-> <<2025, 1, 10>>,
     end_date |-> <<2025, 1, 5>>]
BookingBodies ==
    {BookingBody,
     Merge(BookingBody, [status |-> "accepted"]),
     Merge(BookingBody, [status |-> "paid"]),
     Merge(BookingBody, [start_date |-> <<2025, 13, 1>>]),
     Without(BookingBody, {"end_date"})}

MessageBody ==
    [listing_id |-> "l1", sender_id |-> "A", receiver_id |-> "B", content |-> "hi"]
MessageBodies == {MessageBody, Without(MessageBody, {"content"})}

ReviewBody ==
    [booking_id |-> "b1", reviewer_id |-> "u1", reviewee_id |-> "u2", rating |-> 5]
ReviewBodies ==
    {ReviewBody,
     Merge(ReviewBody, [rating |-> 1, comment |-> Some("fine")]),
     Merge(ReviewBody, [rating |-> 0]),
     Merge(ReviewBody, [rating |-> 6]),
     Without(ReviewBody, {"rating"})}

SavedSearchBody ==
    [tenant_id |-> "u1", name |-> "cheap", query |-> [room_type |-> "private_room"]]
SavedSearchBodies ==
    {SavedSearchBody,
     Without(SavedSearchBody, {"query"})}

VerificationBody ==
    [user_id |-> "u1", type |-> "id", document_urls |-> <<HttpsUrl>>]
VerificationBodies ==
    {VerificationBody,
     Merge(VerificationBody, [status |-> "approved"]),
     Merge(VerificationBody, [type |-> "passport"]),
     Merge(VerificationBody, [status |-> "lost"]),
     Merge(VerificationBody, [document_urls |-> <<>>]),
     Merge(VerificationBody, [document_urls |-> <<FtpUrl>>]),
     Without(VerificationBody, {"user_id"})}

\* The specification remembers the previous request and its response when
\* the same GET request is made again right after it.
NoLast == [req |-> NoCall, resp |-> NoCall]

Record ==
    last' = IF req'.op = "GET" /\ req' = req
            THEN [req |-> req, resp |-> resp]
            ELSE NoLast

Init == InitWith(UrlSettings, NameSettings)

Next ==
    \/ \E b \in UserBodies : create_user(b) /\ Record
    \/ \E b \in ListingBodies : create_listing(b) /\ Record
    \/ \E b \in BookingBodies : request_booking(b) /\ Record
    \/ \E b \in MessageBodies : send_message(b) /\ Record
    \/ \E b \in ReviewBodies : create_review(b) /\ Record
    \/ \E b \in SavedSearchBodies : create_saved_search(b) /\ Record
    \/ \E b \in VerificationBodies : create_verification_request(b) /\ Record
    \/ \E role \in {None, Some("tenant")} : list_users(role) /\ Record
    \/ \E price_max \in {None, Some(0)} :
            search_listings(None, None, 20, None, price_max, None, None) /\ Record
    \/ list_bookings(None, None) /\ Record
    \/ get_messages(None, None) /\ Record
    \/ list_reviews(None) /\ Record
    \/ \E tenant_id \in {None, Some("u1")} : list_saved_searches(tenant_id) /\ Record
    \/ list_verification_requests(None, None) /\ Record

Spec == Init /\ [][Next]_vars

(***************************************************************************)
(* Listing search and message retrieval with every parameter varied.       *)
(***************************************************************************)
SearchBodies ==
    {Merge(ListingBody, [price |-> 10, room_type |-> "shared_room"]),
     Merge(ListingBody, [price |-> 50, room_type |-> "private_room", available_now |-> FALSE]),
     Merge(ListingBody, [price |-> 100, room_type |-> "shared_room", available_now |-> TRUE])}

PriceMins == {None, Some(0), Some(20)}
PriceMaxs == {None, Some(0), Some(80)}
RoomTypeParams == {None, Some(""), Some("private_room")}
AvailableParams == {None, Some(FALSE), Some(TRUE)}
GeoParams ==
    {[lat |-> None, lng |-> None, radius_km |-> 20],
     [lat |-> Some(52), lng |-> Some(13), radius_km |-> 5]}

ListingsNext ==
    \/ \E b \in SearchBodies : create_listing(b) /\ UNCHANGED last
    \/ \E geo \in GeoParams, price_min \in PriceMins, price_max \in PriceMaxs,
          room_type \in RoomTypeParams, available_now \in AvailableParams :
            /\ search_listings(geo.lat, geo.lng, geo.radius_km, price_min, price_max,
                               room_type, available_now)
            /\ UNCHANGED last

SpecListings == InitWith({Some("mongodb://db")}, {Some("rentit")}) /\ [][ListingsNext]_vars

ChatBodies ==
    {[listing_id |-> "l1", sender_id |-> "A", receiver_id |-> "B", content |-> "hi"],
     [listing_id |-> "l1", sender_id |-> "B", receiver_id |-> "A", content |-> "hi"],
     [listing_id |-> "l2", sender_id |-> "A", receiver_id |-> "C", content |-> "hi"],
     [listing_id |-> "l2", sender_id |-> "C", receiver_id |-> "C", content |-> "hi"]}

ListingIdParams == {None, Some(""), Some("l1"), Some("l2")}
UserIdParams == {None, Some(""), Some("A"), Some("B"), Some("C")}

MessagesNext ==
    \/ \E b \in ChatBodies : send_message(b) /\ UNCHANGED last
    \/ \E listing_id \in ListingIdParams, user_id \in UserIdParams :
            get_messages(listing_id, user_id) /\ UNCHANGED last

SpecMessages == InitWith({Some("mongodb://db")}, {Some("rentit")}) /\ [][MessagesNext]_vars

(***************************************************************************)
(* Claims about the adapter.                                               *)
(***************************************************************************)
AdapterOps == {"create_document", "get_documents", "get_document", "update_document"}

FilterOf(r) == IF r.filter = None THEN NoFilter ELSE r.filter[1]

\* C4: with the store handle unset, every adapter operation raises the
\* unavailable error before any store call, returns nothing, and the state
\* stays as it was at startup; startup itself succeeds.
C4_UnsetHandleFailsOnUse ==
    db = None =>
        /\ store = EmptyStore /\ clock = 0 /\ oids = 0
        /\ req.op \in AdapterOps =>
            /\ resp.raised = Some(UNAVAILABLE)
            /\ resp.calls = 0
            /\ resp.ret = None

C4_Witness ==
    /\ db = None
    /\ env.database_url # None
    /\ req.op = "update_document"
    /\ req.upsert
    /\ resp.raised = Some(UNAVAILABLE)

\* C5: update_document without upsert changes at most one document.  When a
\* document matches, the first match gets the update's fields and a fresh
\* updated_at, keeps its identifier and every field the update does not
\* name, every other document stays as it is, and the call answers
\* matched = 1 with no upserted id; when none matches the store is unchanged
\* and the call answers matched = 0, modified = 0, no upserted id.
C5_UpdateStep ==
    LET c == req'.collection
        u == req'.update
        old == store[c]
        new == store'[c]
        i == FirstMatch(old, FilterOf(req'))
    IN  /\ \A d \in Collections \ {c} : store'[d] = store[d]
        /\ Len(new) = Len(old)
        /\ \A j \in 1..Len(old) : j # i => new[j] = old[j]
        /\ oids' = oids
        /\ i # 0 =>
            /\ DOMAIN new[i] = DOMAIN old[i] \cup DOMAIN u \cup {"updated_at"}
            /\ \A f \in DOMAIN u \ {"updated_at"} : new[i][f] = u[f]
            /\ new[i]["updated_at"] = clock
            /\ \A f \in DOMAIN old[i] \ (DOMAIN u \cup {"updated_at"}) :
                    new[i][f] = old[i][f]
            /\ new[i]["_id"] = old[i]["_id"]
            /\ "created_at" \notin DOMAIN u /\ "created_at" \in DOMAIN old[i] =>
                    new[i]["created_at"] = old[i]["created_at"]
            /\ resp'.ret.matched = 1
            /\ resp'.ret.upserted_id = None
        /\ i = 0 =>
            /\ store' = store
            /\ resp'.ret = [matched |-> 0, modified |-> 0, upserted_id |-> None]

C5_UpdateChangesFirstMatchOnly ==
    [][(req'.op = "update_document" /\ ~req'.upsert /\ resp'.raised = None)
        => C5_UpdateStep]_vars

C5_Witness ==
    /\ req.op = "update_document"
    /\ ~req.upsert
    /\ resp.raised = None
    /\ resp.ret.matched = 1
    /\ Len(Find(store[req.collection], FilterOf(req))) >= 2
    /\ \E i \in 1..Len(store[req.collection]) :
            /\ "created_at" \in DOMAIN store[req.collection][i]
            /\ store[req.collection][i]["updated_at"] # store[req.collection][i]["created_at"]

\* C6: every stored document carries created_at and updated_at.
C6_EveryDocumentStamped ==
    \A c \in Collections : \A i \in 1..Len(store[c]) :
        {"created_at", "updated_at"} \subseteq DOMAIN store[c][i]

\* C10 as claimed: with any limit n >= 0 supplied get_documents returns the
\* first min(n, m) of the m matching documents, without a limit all m.
C10_LimitTruncatesFromZero ==
    (req.op = "get_documents" /\ resp.raised = None) =>
        LET m == Find(store[req.collection], FilterOf(req))
        IN  resp.ret = IF req.limit # None
                       THEN SubSeq(m, 1, Min(req.limit[1], Len(m)))
                       ELSE m

\* C10 amended: with a limit n >= 1 get_documents returns the first
\* min(n, m) of the m matching documents in store order; with no limit, or
\* with the limit 0, it returns all m.
C10_LimitTruncatesFromOne ==
    (req.op = "get_documents" /\ resp.raised = None) =>
        LET m == Find(store[req.collection], FilterOf(req))
        IN  resp.ret = IF req.limit # None /\ req.limit[1] >= 1
                       THEN SubSeq(m, 1, Min(req.limit[1], Len(m)))
                       ELSE m

C10_Witness ==
    /\ req.op = "get_documents"
    /\ resp.raised = None
    /\ req.limit = Some(1)
    /\ Len(Find(store[req.collection], FilterOf(req))) = 2
    /\ Len(resp.ret) = 1

(***************************************************************************)
(* Claims about the HTTP API.                                              *)
(***************************************************************************)
Range(q) == {q[i] : i \in 1..Len(q)}

\* A body misses a required field, or a declared field of it violates its
\* range, format or enumeration.
C1_Violates(c, body) ==
    \/ \E f \in Required(c) : f \notin DOMAIN body
    \/ \E f \in DOMAIN body \cap Fields(c) : ~FieldValid(c, f, body[f])

\* C1: a POST whose body misses a required field or violates a declared
\* constraint answers 422, makes no store call and leaves every collection
\* as it was.
C1_InvalidBodyRejected ==
    [][(req'.op = "POST" /\ C1_Violates(req'.collection, req'.body))
        => /\ resp'.status = 422
           /\ resp'.calls = 0
           /\ store' = store]_vars

C1_Witness ==
    /\ req.op = "POST"
    /\ req.collection = "listing"
    /\ "price" \in DOMAIN req.body
    /\ req.body.price < 0
    /\ resp.status = 422
    /\ Len(store["listing"]) >= 1

\* A payload field and the field of a record hold the same value; of a
\* nested location, the keys the payload gives.
SameValue(f, given, got) ==
    IF f = "location"
    THEN \A k \in DOMAIN given : k \in DOMAIN got /\ got[k] = given[k]
    ELSE got = given

\* The GET request carries no filter (for saved searches, whose tenant_id
\* is mandatory: the tenant of the record looked for).
Unfiltered(r, payload) ==
    IF r.route = "list_saved_searches"
    THEN r.params.tenant_id = Some(payload.tenant_id)
    ELSE \A k \in DOMAIN r.params \ {"radius_km"} : r.params[k] = None

C3_Step ==
    LET c == req'.collection
        body == req'.body
        n == Len(store'[c])
    IN  /\ resp'.status = 201
        /\ \A d \in Collections \ {c} : store'[d] = store[d]
        /\ n = Len(store[c]) + 1
        /\ SubSeq(store'[c], 1, n - 1) = store[c]
        /\ store'[c][n]["created_at"] = store'[c][n]["updated_at"]
        /\ resp'.body[1]["id"] = OidStr(store'[c][n]["_id"])
        /\ resp'.body[1]["id"] # ""
        /\ \A d \in Collections : \A i \in 1..Len(store[d]) :
                store[d][i]["_id"] # store'[c][n]["_id"]
        /\ \A f \in DOMAIN body \cap Fields(c) :
                SameValue(f, body[f], resp'.body[1][f])

C3_ValidPostCreates ==
    [][(req'.op = "POST" /\ db # None /\ Validate(req'.collection, req'.body))
        => C3_Step]_vars

\* C9: a GET list route leaves the store as it is; each record it answers
\* is a stored document with the string id in place of _id; and the same
\* request made again right away answers the same set of records.
C9_Step ==
    /\ store' = store /\ clock' = clock /\ oids' = oids
    /\ resp'.status = 200 =>
        \A i \in 1..Len(resp'.body) :
            LET rec == resp'.body[i]
            IN  /\ "id" \in DOMAIN rec
                /\ "_id" \notin DOMAIN rec
                /\ \E j \in 1..Len(store[req'.collection]) :
                    LET d == store[req'.collection][j]
                    IN  /\ rec["id"] = OidStr(d["_id"])
                        /\ Without(rec, {"id"}) = Without(d, {"_id"})
    /\ last'.req = req' => Range(resp'.body) = Range(last'.resp.body)

C9_ListIsReadOnly == [][req'.op = "GET" => C9_Step]_vars

C9_Witness ==
    /\ req.op = "GET"
    /\ req.route = "search_listings"
    /\ req.params.price_max = Some(0)
    /\ last.req = req
    /\ Len(resp.body) = 1
    /\ Len(store["listing"]) = 2

\* The ids of the records of a response, and of the stored documents of a
\* collection that satisfy a predicate.
RespIds == {resp.body[i]["id"] : i \in 1..Len(resp.body)}
StoredIds(c, Sat(_)) == {OidStr(d["_id"]) : d \in {e \in Range(store[c]) : Sat(e)}}

\* C7 as claimed: GET /listings answers exactly the stored listings that
\* satisfy every supplied parameter, whatever lat, lng and radius_km are.
C7_ExactlyTheSupplied ==
    (req.op = "GET" /\ req.route = "search_listings" /\ resp.status = 200) =>
        LET p == req.params
            Sat(d) ==
                /\ p.price_min # None => d["price"] >= p.price_min[1]
                /\ p.price_max # None => d["price"] <= p.price_max[1]
                /\ p.room_type # None => d["room_type"] = p.room_type[1]
                /\ p.available_now # None => d["available_now"] = p.available_now[1]
        IN  /\ RespIds = StoredIds("listing", Sat)
            /\ Len(resp.body) = Cardinality(RespIds)

\* C7 amended: as claimed, except that room_type filters only when it is
\* supplied and not empty; an empty room_type is ignored.
C7_ExactlyTheSuppliedNonEmpty ==
    (req.op = "GET" /\ req.route = "search_listings" /\ resp.status = 200) =>
        LET p == req.params
            Sat(d) ==
                /\ p.price_min # None => d["price"] >= p.price_min[1]
                /\ p.price_max # None => d["price"] <= p.price_max[1]
                /\ (p.room_type # None /\ p.room_type[1] # "") =>
                        d["room_type"] = p.room_type[1]
                /\ p.available_now # None => d["available_now"] = p.available_now[1]
        IN  /\ RespIds = StoredIds("listing", Sat)
            /\ Len(resp.body) = Cardinality(RespIds)

C7_Witness ==
    /\ req.op = "GET"
    /\ req.route = "search_listings"
    /\ req.params.price_min = Some(20)
    /\ req.params.price_max = Some(80)
    /\ req.params.lat # None
    /\ Len(store["listing"]) = 2
    /\ store["listing"][2]["price"] = 100
    /\ Len(resp.body) = 1
    /\ resp.body[1]["price"] = 50

\* C8 as claimed: GET /messages with user_id = U answers exactly the
\* messages U sent or received, and with listing_id = L exactly those of
\* them on listing L.
C8_ExactlyTheUsers ==
    (req.op = "GET" /\ req.route = "get_messages" /\ resp.status = 200
     /\ req.params.user_id # None) =>
        LET U == req.params.user_id[1]
            Sat(d) ==
                /\ req.params.listing_id # None =>
                        d["listing_id"] = req.params.listing_id[1]
                /\ d["sender_id"] = U \/ d["receiver_id"] = U
        IN  /\ RespIds = StoredIds("message", Sat)
            /\ Len(resp.body) = Cardinality(RespIds)

\* C8 amended: as claimed for a user_id and a listing_id that are not
\* empty; an empty user_id or listing_id is ignored, as if not supplied.
C8_ExactlyTheUsersNonEmpty ==
    (req.op = "GET" /\ req.route = "get_messages" /\ resp.status = 200) =>
        LET p == req.params
            Sat(d) ==
                /\ (p.listing_id # None /\ p.listing_id[1] # "") =>
                        d["listing_id"] = p.listing_id[1]
                /\ (p.user_id # None /\ p.user_id[1] # "") =>
                        d["sender_id"] = p.user_id[1] \/ d["receiver_id"] = p.user_id[1]
        IN  /\ RespIds = StoredIds("message", Sat)
            /\ Len(resp.body) = Cardinality(RespIds)

C8_Witness ==
    /\ req.op = "GET"
    /\ req.route = "get_messages"
    /\ req.params.user_id = Some("B")
    /\ req.params.listing_id = None
    /\ Len(store["message"]) = 2
    /\ store["message"][1]["receiver_id"] = "B"
    /\ store["message"][2]["receiver_id"] = "C"
    /\ Len(resp.body) = 1
    /\ resp.body[1]["sender_id"] = "A"

====
